---- MODULE Spec2Model ----
(***************************************************************************)
(* Model of ai-cli: the terminal selector (ai_cli/cli.py, select_option    *)
(* and its caller tools) and the CLI tool discovery                        *)
(* (ai_cli/models.py, AIModelManager._check_cli_availability).             *)
(*                                                                         *)
(* Strings are tuples of one-character strings, so that slicing, prefix,   *)
(* suffix, substring, lower-casing, splitting and code-point ordering are  *)
(* computed as Python computes them.                                       *)
(***************************************************************************)
EXTENDS Integers, Sequences, FiniteSets, TLC

(***************************************************************************)
(* Bounds of the model.                                                    *)
(***************************************************************************)
\* the longest option list handed to select_option by a direct caller
MaxOpts == 3
\* the number of bytes one select_option invocation reads from stdin
MaxReads == 4
\* the prompts one chat session answers
MaxTurns == 2
\* directories on PATH
MaxDirs == 2
\* directory entries in the whole of PATH
MaxFiles == 2
\* entries of custom_cli_tools in the configuration
MaxCustom == 2

(***************************************************************************)
(* Python strings.                                                         *)
(***************************************************************************)
\* the characters the model uses, in code-point order
Alphabet ==
    << " ", "(", ")", "-", "1", "2", "3", "4", "5", ":",
       "A", "B", "C", "D", "E", "F", "G", "H", "I", "J", "K", "L", "M",
       "N", "O", "P", "Q", "R", "S", "T", "U", "V", "W", "X", "Y", "Z",
       "a", "b", "c", "d", "e", "f", "g", "h", "i", "j", "k", "l", "m",
       "n", "o", "p", "q", "r", "s", "t", "u", "v", "w", "x", "y", "z" >>

\* the position of each character in that order
CodePoint ==
    [c \in { Alphabet[i] : i \in 1..Len(Alphabet) } |->
        CHOOSE i \in 1..Len(Alphabet) : Alphabet[i] = c]

Ord(c) == CodePoint[c]

FirstUpper == Ord("A")

FirstLower == Ord("a")

\* str.lower() on one character
LowerChar(c) ==
    IF Ord(c) >= FirstUpper /\ Ord(c) < FirstUpper + (Len(Alphabet) - FirstLower + 1)
    THEN Alphabet[Ord(c) - FirstUpper + FirstLower]
    ELSE c

\* str.lower()
Lower(s) == [i \in 1..Len(s) |-> LowerChar(s[i])]

\* str.startswith(p)
StartsWith(s, p) == Len(p) <= Len(s) /\ SubSeq(s, 1, Len(p)) = p

\* str.endswith(p)
EndsWith(s, p) == Len(p) <= Len(s) /\ SubSeq(s, Len(s) - Len(p) + 1, Len(s)) = p

\* sub in s
Contains(s, sub) ==
    \E i \in 0..(Len(s) - Len(sub)) : SubSeq(s, i + 1, i + Len(sub)) = sub

\* s[n:]
SliceFrom(s, n) == SubSeq(s, n + 1, Len(s))

\* a split at the last ":" instead of the first
SplitLast(s) ==
    IF \E i \in 1..Len(s) : s[i] = ":"
    THEN LET i == CHOOSE k \in 1..Len(s) :
                      s[k] = ":" /\ \A m \in (k + 1)..Len(s) : s[m] # ":"
         IN << SubSeq(s, 1, i - 1), SubSeq(s, i + 1, Len(s)) >>
    ELSE << s >>

\* s.split(":", 1)
Split1(s) ==
    IF \E i \in 1..Len(s) : s[i] = ":"
    THEN LET i == CHOOSE k \in 1..Len(s) :
                      s[k] = ":" /\ \A m \in 1..(k - 1) : s[m] # ":"
         IN << SubSeq(s, 1, i - 1), SubSeq(s, i + 1, Len(s)) >>
    ELSE << s >>

\* a < b on str: compare the first differing character, a proper prefix is smaller
RECURSIVE StrLess(_, _)
StrLess(a, b) ==
    IF b = << >> THEN FALSE
    ELSE IF a = << >> THEN TRUE
    ELSE IF Head(a) = Head(b) THEN StrLess(Tail(a), Tail(b))
    ELSE Ord(Head(a)) < Ord(Head(b))

\* a remainder that truncates toward zero and so keeps the sign of a
TruncMod(a, n) == IF a < 0 THEN 0 - ((0 - a) % n) ELSE a % n

\* a % n of Python for n > 0: the result has the sign of n
PyMod(a, n) == ((a % n) + n) % n

\* seq[i] of Python, zero-based, a negative index counting from the end
PyIndex(seq, i) == IF i < 0 THEN seq[Len(seq) + i + 1] ELSE seq[i + 1]

(***************************************************************************)
(* String constants.                                                       *)
(***************************************************************************)
sClaude == << "c", "l", "a", "u", "d", "e" >>

sClaudeCap == << "C", "l", "a", "u", "d", "e" >>

sOllamaPhi == << "o", "l", "l", "a", "m", "a", ":", "p", "h", "i" >>

sOllamaTagged == << "o", "l", "l", "a", "m", "a", ":", "p", "h", "i", ":", "2" >>

sOllamaPrefix == << "o", "l", "l", "a", "m", "a", ":" >>

sAider == << "a", "i", "d", "e", "r" >>

sModel == << "m", "o", "d", "e", "l" >>

sTool == << "t", "o", "o", "l" >>

sColon == << ":" >>

sCloudTag == << " ", "(", "C", "l", "o", "u", "d", ")" >>

sOllamaTag == << " ", "(", "O", "l", "l", "a", "m", "a", ")" >>

sCliTag == << " ", "(", "C", "L", "I", ")" >>

sHelperAi == << "m", "y", "h", "e", "l", "p", "e", "r", "-", "a", "i" >>

sAndroidAi == << "m", "y", "a", "n", "d", "r", "o", "i", "d", "-", "a", "i" >>

sMy == << "m", "y" >>

sDashAi == << "-", "a", "i" >>

sAndroid == << "a", "n", "d", "r", "o", "i", "d" >>

VARIABLES
    \* ---- terminal selector (cli.py) ----
    caller,      \* "tools": select_option is called by tools(); "direct": by any other caller
    models,      \* resources["models"]
    cli_tools,   \* resources["cli_tools"]
    options,     \* the (display, payload) pairs handed to select_option
    isatty,      \* sys.stdin.isatty()
    pc,          \* where the control flow is blocked or has ended
    current,     \* select_option's cursor
    term,        \* the terminal: its mode, the saved mode, and the calls made on it
    outcome,     \* how select_option ended
    result,      \* what select_option returned
    nReads,      \* bytes read so far
    lastByte,    \* the byte read last
    navs,        \* the navigation keys decoded so far
    notice,      \* what tools() printed after the selector ended
    dispatched,  \* what tools() handed the selection to
    pending,     \* the byte waiting on stdin, "none" if a read would block
    ignored,     \* the escape sequences decoded as no key so far
    chat,        \* the chat session: _run_chat_session
    launched,    \* the launch of a CLI tool: _run_cli_tool
    \* ---- discovery (models.py) ----
    fs,               \* the files below the PATH directories
    patterns,         \* config_manager.get_ai_tool_patterns()
    default_excluded, \* config_manager.get_default_excluded_tools()
    excluded_cli_tools, \* config_manager.get_excluded_cli_tools()
    custom_tools,     \* config_manager.get_custom_cli_tools()
    dpc,              \* where _check_cli_availability is
    di,               \* the index of the PATH directory scanned next
    candidates,       \* candidates
    seen,             \* seen
    failed,           \* the PATH directories whose scan raised
    available         \* the list returned

selVars ==
    << caller, models, cli_tools, options, isatty, pc, current, term, outcome,
       result, nReads, lastByte, navs, notice, dispatched, pending, ignored,
       chat, launched >>

discVars ==
    << fs, patterns, default_excluded, excluded_cli_tools, custom_tools, dpc, di,
       candidates, seen, failed, available >>

vars == << selVars, discVars >>

(***************************************************************************)
(* The terminal selector: select_option.                                   *)
(***************************************************************************)
\* Python's None
None == << >>

NoDispatch == [kind |-> "none", name |-> << >>]

\* the terminal before select_option is called: cooked mode, nothing saved, no call made
InitTerm ==
    [mode |-> "cooked", saved |-> "none", nSave |-> 0, nSetraw |-> 0,
     nRestore |-> 0, nHide |-> 0, nShow |-> 0, nClear |-> 0]

\* the bytes sys.stdin.read(1) can return; "EOF" is the empty string of end of input
Bytes ==
    { "ESC", "[", "A", "B", "j", "J", "k", "K", "q", "Q", "CR", "LF", "ETX", "x", "EOF" }

\* which write of a step raises (0: none); a step makes at most 4 writes
FailPoints == { 0, 1, 2, 3, 4 }

\* the operations that write to sys.stdout and so can raise
IsWrite(op) == op \in { "clear", "hide", "show", "draw" }

\* one call on the terminal
ApplyOp(t, op) ==
    CASE op = "getattr" -> [t EXCEPT !.saved = t.mode, !.nSave = @ + 1]
      [] op = "setraw"  -> [t EXCEPT !.mode = "raw", !.nSetraw = @ + 1]
      [] op = "restore" -> [t EXCEPT !.mode = t.saved, !.nRestore = @ + 1]
      [] op = "hide"    -> [t EXCEPT !.nHide = @ + 1]
      [] op = "show"    -> [t EXCEPT !.nShow = @ + 1]
      [] op = "clear"   -> [t EXCEPT !.nClear = @ + 1]
      [] OTHER          -> t

\* the calls of ops in order; the failAt-th write is called and raises
RECURSIVE RunOps(_, _, _)
RunOps(t, ops, failAt) ==
    IF ops = << >> THEN [term |-> t, raised |-> FALSE]
    ELSE LET t1 == ApplyOp(t, Head(ops))
         IN IF IsWrite(Head(ops))
            THEN IF failAt = 1 THEN [term |-> t1, raised |-> TRUE]
                 ELSE RunOps(t1, Tail(ops), failAt - 1)
            ELSE RunOps(t1, Tail(ops), failAt)

\* render(): clear_screen(), then the title, the hint and the options
RenderOps == << "clear", "draw" >>

\* tty.setraw(fd); hide_cursor(); render()
EnterOps == << "setraw", "hide" >> \o RenderOps

\* clear_screen(); show_cursor() of the ESC, q and Enter branches
LeaveOps == << "clear", "show" >>

\* a Ctrl+C branch that leaves show_cursor() to the finally block
InterruptOpsNoShow == << "clear" >>

\* clear_screen(); show_cursor() of the Ctrl+C branch
InterruptOps == << "clear", "show" >>

\* a re-render for a CSI sequence that is neither Up nor Down
UnknownCsiRenders == RenderOps

\* ESC '[' and a byte other than 'A' and 'B': neither branch is taken, no call is made
UnknownCsiOps == << >>

\* what waits on stdin once b was read: the end of input stays, a byte is consumed
AfterRead(b) == IF b = "EOF" THEN "EOF" ELSE "none"

\* the finally block: show_cursor(), then termios.tcsetattr(fd, TCSADRAIN, old_settings)
FinallyOps == << "show", "restore" >>

\* The try block runs body and then either stays in the loop (intended =
\* "continue") or leaves with intended; an exception raised by a write of body
\* leaves too. Leaving runs the finally block, whose own show_cursor() can raise,
\* which skips the rest of the block and replaces the pending result.
TryStep(t, body, intended, failBody, failFinally) ==
    LET b == RunOps(t, body, failBody)
    IN IF ~b.raised /\ intended = "continue"
       THEN [term |-> b.term, outcome |-> "none"]
       ELSE LET f == RunOps(b.term, FinallyOps, IF failFinally THEN 1 ELSE 0)
            IN [term |-> f.term,
                outcome |-> IF b.raised \/ f.raised THEN "error" ELSE intended]

\* the empty-list check alone, without the terminal check
FastPathNoTty(opts, tty) == opts = << >>

\* the two fast paths: "if not options" and "if not sys.stdin.isatty()"
FastPath(opts, tty) == opts = << >> \/ ~tty

\* the first option whatever the cursor
SelectFirst(opts, cur) == opts[1]

\* options[current]
SelectedOption(opts, cur) == PyIndex(opts, cur)

\* current = (current - 1) % len(options)
MoveUp(cur, n) == PyMod(cur - 1, n)

\* current = (current + 1) % len(options)
MoveDown(cur, n) == PyMod(cur + 1, n)

IsDownKey(b) == b \in { "j", "J" }

IsUpKey(b) == b \in { "k", "K" }

\* the quit key in lower case only
IsQuitKeyLower(b) == b = "q"

IsQuitKey(b) == b \in { "q", "Q" }

IsEnterKey(b) == b \in { "CR", "LF" }

IsInterruptKey(b) == b = "ETX"

(***************************************************************************)
(* tools(): the option list and what is done with the selector's result.   *)
(***************************************************************************)
\* label, payload of one model
ModelOption(m) ==
    << IF StartsWith(m, sOllamaPrefix)
       THEN SliceFrom(m, 7) \o sOllamaTag
       ELSE m \o sCloudTag,
       sModel \o sColon \o m >>

\* label, payload of one CLI tool
ToolOption(t) == << t \o sCliTag, sTool \o sColon \o t >>

\* the options list of tools(): the models, then the CLI tools
BuildOptions(ms, ts) ==
    [i \in 1..Len(ms) |-> ModelOption(ms[i])] \o [i \in 1..Len(ts) |-> ToolOption(ts[i])]

\* resource_type, resource_name = resource_info.split(":", 1), and the branch taken
Dispatch(res) ==
    LET parts == Split1(res[2])
    IN IF parts[1] = sModel THEN [kind |-> "chat", name |-> parts[2]]
       ELSE IF parts[1] = sTool THEN [kind |-> "launch", name |-> parts[2]]
       ELSE NoDispatch

\* a notice for Cancelled only
NoticeQuietInterrupt(o) == IF o = "cancelled" THEN "Cancelled." ELSE "none"

\* what tools() echoes once select_option has ended with o
NoticeFor(o) ==
    IF o \in { "cancelled", "interrupted" } THEN "Cancelled." ELSE "none"

\* where the control flow is once select_option has ended with o and returned res
AfterSelect(c, o, res) ==
    IF c = "direct"
    THEN [pc |-> IF o \in { "interrupted", "error" } THEN "raised" ELSE "returned",
          notice |-> "none", dispatched |-> NoDispatch]
    ELSE IF o = "selected"
    THEN [pc |-> Dispatch(res).kind, notice |-> "none", dispatched |-> Dispatch(res)]
    ELSE IF o = "error"
    THEN [pc |-> "tools_raised", notice |-> "none", dispatched |-> NoDispatch]
    ELSE [pc |-> "tools_returned", notice |-> NoticeFor(o), dispatched |-> NoDispatch]

\* the state after a step of select_option that left r, with the cursor at cur
Advance(r, nextpc, cur) ==
    LET res == IF r.outcome = "selected" THEN SelectedOption(options, cur) ELSE None
        after == AfterSelect(caller, r.outcome, res)
    IN /\ term' = r.term
       /\ outcome' = r.outcome
       /\ current' = cur
       /\ result' = res
       /\ IF r.outcome = "none"
          THEN pc' = nextpc /\ notice' = "none" /\ dispatched' = NoDispatch
          ELSE pc' = after.pc /\ notice' = after.notice /\ dispatched' = after.dispatched

\* select_option from its first line to the first sys.stdin.read(1)
SelectEntry(opts, failBody, failFinally) ==
    /\ options' = opts
    /\ IF FastPath(opts, isatty)
       THEN Advance([term |-> term, outcome |-> "cancelled"], "none", 0)
       ELSE Advance(TryStep(ApplyOp(term, "getattr"), EnterOps, "continue",
                            failBody, failFinally), "ch", 0)
    /\ UNCHANGED << caller, models, cli_tools, isatty, nReads, lastByte, navs,
                    pending, ignored, chat, launched >>

\* a caller other than tools() calls select_option(options)
SelectOption ==
    /\ pc = "call"
    /\ caller = "direct"
    /\ \E failBody \in FailPoints, failFinally \in BOOLEAN :
           SelectEntry(options, failBody, failFinally)
    /\ UNCHANGED discVars

\* tools() up to the first read of select_option, or to its exit with no option
Tools ==
    /\ pc = "call"
    /\ caller = "tools"
    /\ IF BuildOptions(models, cli_tools) = << >>
       THEN /\ pc' = "exit1"
            /\ UNCHANGED << caller, models, cli_tools, options, isatty, current, term,
                            outcome, result, nReads, lastByte, navs, notice, dispatched,
                            pending, ignored, chat, launched >>
       ELSE \E failBody \in FailPoints, failFinally \in BOOLEAN :
                SelectEntry(BuildOptions(models, cli_tools), failBody, failFinally)
    /\ UNCHANGED discVars

\* ch = sys.stdin.read(1) returns b, and the branch of the loop body taken for it
ReadCh ==
    /\ pc = "ch"
    /\ nReads < MaxReads
    /\ pending # "none"
    /\ \E b \in { pending }, failBody \in FailPoints, failFinally \in BOOLEAN :
        /\ lastByte' = b
        /\ nReads' = nReads + 1
        /\ pending' = AfterRead(b)
        /\ IF b = "ESC"
           THEN /\ Advance([term |-> term, outcome |-> "none"], "next1", current)
                /\ navs' = navs
           ELSE IF IsDownKey(b)
           THEN /\ Advance(TryStep(term, RenderOps, "continue", failBody, failFinally),
                           "ch", MoveDown(current, Len(options)))
                /\ navs' = Append(navs, "down")
           ELSE IF IsUpKey(b)
           THEN /\ Advance(TryStep(term, RenderOps, "continue", failBody, failFinally),
                           "ch", MoveUp(current, Len(options)))
                /\ navs' = Append(navs, "up")
           ELSE IF IsQuitKey(b)
           THEN /\ Advance(TryStep(term, LeaveOps, "cancelled", failBody, failFinally),
                           "ch", current)
                /\ navs' = navs
           ELSE IF IsEnterKey(b)
           THEN /\ Advance(TryStep(term, LeaveOps, "selected", failBody, failFinally),
                           "ch", current)
                /\ navs' = navs
           ELSE IF IsInterruptKey(b)
           THEN /\ Advance(TryStep(term, InterruptOps, "interrupted", failBody,
                                   failFinally), "ch", current)
                /\ navs' = navs
           ELSE /\ Advance([term |-> term, outcome |-> "none"], "ch", current)
                /\ navs' = navs
    /\ UNCHANGED << caller, models, cli_tools, options, isatty, ignored, chat, launched >>
    /\ UNCHANGED discVars

\* next1 = sys.stdin.read(1) returns b, after an ESC
ReadNext1 ==
    /\ pc = "next1"
    /\ nReads < MaxReads
    /\ pending # "none"
    /\ \E b \in { pending }, failBody \in FailPoints, failFinally \in BOOLEAN :
        /\ lastByte' = b
        /\ nReads' = nReads + 1
        /\ pending' = AfterRead(b)
        /\ IF b = "["
           THEN Advance([term |-> term, outcome |-> "none"], "next2", current)
           ELSE Advance(TryStep(term, LeaveOps, "cancelled", failBody, failFinally),
                        "ch", current)
    /\ UNCHANGED << caller, models, cli_tools, options, isatty, navs, ignored, chat,
                    launched >>
    /\ UNCHANGED discVars

\* next2 = sys.stdin.read(1) returns b, after ESC [
ReadNext2 ==
    /\ pc = "next2"
    /\ nReads < MaxReads
    /\ pending # "none"
    /\ \E b \in { pending }, failBody \in FailPoints, failFinally \in BOOLEAN :
        /\ lastByte' = b
        /\ nReads' = nReads + 1
        /\ pending' = AfterRead(b)
        /\ IF b = "A"
           THEN /\ Advance(TryStep(term, RenderOps, "continue", failBody, failFinally),
                           "ch", MoveUp(current, Len(options)))
                /\ navs' = Append(navs, "up")
                /\ ignored' = ignored
           ELSE IF b = "B"
           THEN /\ Advance(TryStep(term, RenderOps, "continue", failBody, failFinally),
                           "ch", MoveDown(current, Len(options)))
                /\ navs' = Append(navs, "down")
                /\ ignored' = ignored
           ELSE /\ Advance(TryStep(term, UnknownCsiOps, "continue", failBody,
                                   failFinally), "ch", current)
                /\ navs' = navs
                /\ ignored' = ignored + 1
    /\ UNCHANGED << caller, models, cli_tools, options, isatty, chat, launched >>
    /\ UNCHANGED discVars

\* sys.stdin.read(1) raises instead of returning a byte (an undecodable byte, an
\* I/O error) at any of the three reads
ReadRaises ==
    /\ pc \in { "ch", "next1", "next2" }
    /\ nReads < MaxReads
    /\ pending = "none"
    /\ \E failFinally \in BOOLEAN :
           Advance(TryStep(term, << >>, "error", 0, failFinally), pc, current)
    /\ nReads' = nReads + 1
    /\ lastByte' = "raise"
    /\ UNCHANGED << caller, models, cli_tools, options, isatty, navs, pending,
                    ignored, chat, launched >>
    /\ UNCHANGED discVars

\* a byte arrives on stdin (a key is pressed, or the input ends) while
\* sys.stdin.read(1) blocks
KeyArrives ==
    /\ pc \in { "ch", "next1", "next2" }
    /\ nReads < MaxReads
    /\ pending = "none"
    /\ pending' \in Bytes
    /\ UNCHANGED << caller, models, cli_tools, options, isatty, pc, current, term,
                    outcome, result, nReads, lastByte, navs, notice, dispatched,
                    ignored, chat, launched >>
    /\ UNCHANGED discVars

(***************************************************************************)
(* _run_chat_session: the loop of prompts and requests.                    *)
(***************************************************************************)
\* the session before its first prompt
NoChat ==
    [prompts |-> 0, requests |-> 0, errorTexts |-> 0, raised |-> FALSE,
     printed |-> "none"]

\* How one pass of the loop can go. typer.prompt returns an exit keyword ("exit"),
\* or raises on Ctrl+C or end of input ("abort"), or returns a line that is
\* forwarded to manager.chat, which returns the model's text ("reply"), returns
\* the text of a failure that the provider method caught ("error_text"), raises
\* ("raise"), or is interrupted by Ctrl+C ("interrupt").
TurnOutcomes == { "exit", "abort", "reply", "error_text", "raise", "interrupt" }

\* the turns in which manager.chat is called
IsRequest(t) == t \in { "reply", "error_text", "raise", "interrupt" }

\* an error handler that goes on with the next prompt
ChatErrorContinues == "chat"

\* except Exception as e: typer.echo(error); break
AfterChatError == "chat_done"

\* where the loop is after a turn
AfterTurn(t) ==
    CASE t \in { "reply", "error_text" } -> "chat"
      [] t \in { "raise", "abort" } -> AfterChatError
      [] OTHER -> "chat_done"

\* what the turn echoes last
TurnPrints(t) ==
    CASE t = "exit" -> "goodbye"
      [] t \in { "reply", "error_text" } -> "reply"
      [] t = "interrupt" -> "session_ended"
      [] OTHER -> "error"

\* one pass of "while True" in _run_chat_session
ChatTurn ==
    /\ pc = "chat"
    /\ chat.prompts < MaxTurns
    /\ \E t \in TurnOutcomes :
        /\ chat' = [prompts |-> IF t = "abort" THEN chat.prompts ELSE chat.prompts + 1,
                    requests |-> IF IsRequest(t) THEN chat.requests + 1 ELSE chat.requests,
                    errorTexts |-> IF t = "error_text" THEN chat.errorTexts + 1
                                   ELSE chat.errorTexts,
                    raised |-> t = "raise",
                    printed |-> TurnPrints(t)]
        /\ pc' = AfterTurn(t)
    /\ UNCHANGED << caller, models, cli_tools, options, isatty, current, term, outcome,
                    result, nReads, lastByte, navs, notice, dispatched, pending,
                    ignored, launched >>
    /\ UNCHANGED discVars

(***************************************************************************)
(* _run_cli_tool: the launch of an external tool.                          *)
(***************************************************************************)
NoTool == [outcome |-> "none", printed |-> "none"]

\* How subprocess.run([tool_name]) can end: the process exits with status 0
\* ("exit0") or with another status ("nonzero"), the executable is missing
\* ("not_found"), Ctrl+C arrives while the process runs ("interrupt"), or the
\* launch raises another exception ("os_error").
LaunchOutcomes == { "exit0", "nonzero", "not_found", "interrupt", "os_error" }

\* a launch that reports every status other than 0
LaunchNoticeChecked(o) ==
    CASE o = "not_found" -> "not_found_guidance"
      [] o = "interrupt" -> "newline"
      [] o \in { "os_error", "nonzero" } -> "error"
      [] OTHER -> "none"

\* what _run_cli_tool echoes: the return value of subprocess.run is not looked at
LaunchNotice(o) ==
    CASE o = "not_found" -> "not_found_guidance"
      [] o = "interrupt" -> "newline"
      [] o = "os_error" -> "error"
      [] OTHER -> "none"

\* _run_cli_tool(resource_name), whole
RunCliTool ==
    /\ pc = "launch"
    /\ \E o \in LaunchOutcomes : launched' = [outcome |-> o, printed |-> LaunchNotice(o)]
    /\ pc' = "launch_done"
    /\ UNCHANGED << caller, models, cli_tools, options, isatty, current, term, outcome,
                    result, nReads, lastByte, navs, notice, dispatched, pending,
                    ignored, chat >>
    /\ UNCHANGED discVars

(***************************************************************************)
(* Inputs of the selector.                                                 *)
(***************************************************************************)
Digits == << "1", "2", "3", "4", "5" >>

\* the option lists of a direct caller: n pairs with distinct payloads
DirectOptions(n) == [i \in 1..n |-> << << "o", Digits[i] >>, << "p", ":", Digits[i] >> >>]

\* the lists get_available_models() can return in the model
ModelLists ==
    { << >>, << sClaude >>, << sOllamaPhi >>, << sClaude, sOllamaPhi >>,
      << sOllamaTagged >> }

\* the lists _check_cli_availability() can return in the model
ToolLists == { << >>, << sAider >> }

DiscIdle ==
    /\ fs = { }
    /\ patterns = [exact_matches |-> { }, prefixes |-> << >>, suffixes |-> << >>,
                   suffix_exclusions |-> << >>]
    /\ default_excluded = { }
    /\ excluded_cli_tools = { }
    /\ custom_tools = << >>
    /\ dpc = "idle"
    /\ di = 1
    /\ candidates = << >>
    /\ seen = { }
    /\ failed = { }
    /\ available = << >>

SelInit ==
    /\ caller \in { "tools", "direct" }
    /\ IF caller = "tools"
       THEN /\ models \in ModelLists
            /\ cli_tools \in ToolLists
            /\ options = << >>
       ELSE /\ models = << >>
            /\ cli_tools = << >>
            /\ options \in { DirectOptions(n) : n \in 0..MaxOpts }
    /\ isatty \in BOOLEAN
    /\ pc = "call"
    /\ current = 0
    /\ term = InitTerm
    /\ outcome = "none"
    /\ result = None
    /\ nReads = 0
    /\ lastByte = "none"
    /\ navs = << >>
    /\ notice = "none"
    /\ dispatched = NoDispatch
    /\ pending = "none"
    /\ ignored = 0
    /\ chat = NoChat
    /\ launched = NoTool
    /\ DiscIdle

SelNext ==
    \/ SelectOption
    \/ Tools
    \/ KeyArrives
    \/ ReadCh
    \/ ReadNext1
    \/ ReadNext2
    \/ ReadRaises
    \/ ChatTurn
    \/ RunCliTool

SelSpec == SelInit /\ [][SelNext]_vars

\* The program takes the steps it can take: a call is made, and a read returns
\* once a byte waits. Nothing makes a key arrive, a read raise, the user answer
\* a prompt or an external process end.
ProgramStep == SelectOption \/ Tools \/ ReadCh \/ ReadNext1 \/ ReadNext2

SelFairSpec == SelSpec /\ WF_vars(ProgramStep)

(***************************************************************************)
(* Discovery: AIModelManager._check_cli_availability.                      *)
(***************************************************************************)
\* the file names of the model
FileNames == { sClaude, sClaudeCap, sHelperAi, sAndroidAi }

\* what a directory entry can be: an executable regular file, a regular file
\* that is not executable, or something that is no regular file
Kinds == { "exec", "noexec", "dir" }

\* path_dirs, as indices
PathDirs == 1..MaxDirs

\* the names that entries other than executable regular files have in the model
OtherNames == { sClaude }

\* the directory entries of the model
AllEntries ==
    [dir : PathDirs, name : FileNames, kind : { "exec" }]
        \cup [dir : PathDirs, name : OtherNames, kind : Kinds]

\* the subsets of S of at most k elements
RECURSIVE UpTo(_, _)
UpTo(S, k) ==
    IF k = 0 THEN { { } }
    ELSE LET P == UpTo(S, k - 1) IN P \cup { p \cup { e } : p \in P, e \in S }

\* a directory holds a name once
FileSystems ==
    { f \in UpTo(AllEntries, MaxFiles) :
        \A a \in f, b \in f : (a.dir = b.dir /\ a.name = b.name) => a = b }

\* the sequences over S of at most k elements
RECURSIVE SeqsUpTo(_, _)
SeqsUpTo(S, k) ==
    IF k = 0 THEN { << >> }
    ELSE LET P == SeqsUpTo(S, k - 1) IN P \cup { Append(p, e) : p \in P, e \in S }

\* the names custom_cli_tools holds in the model
CustomNames == { sClaude, sAndroidAi }

\* the lists custom_cli_tools can be: add_custom_cli_tool appends a name only if
\* the list does not hold it
CustomLists ==
    { l \in SeqsUpTo(CustomNames, MaxCustom) :
        \A i, j \in 1..Len(l) : l[i] = l[j] => i = j }

\* the orders in which iterdir() can yield the entries E
Orderings(E) ==
    { o \in [1..Cardinality(E) -> E] : \A i, j \in 1..Cardinality(E) : o[i] = o[j] => i = j }

\* the default exclusions alone, without the configured ones
DefaultsOnly(defaults, configured) == defaults

\* excluded = set(get_default_excluded_tools()); excluded.update(get_excluded_cli_tools())
ExcludedSet(defaults, configured) == defaults \cup configured

excluded == ExcludedSet(default_excluded, excluded_cli_tools)

\* the three tiers without the suffix exclusions
QualifiesNoExclusion(nl, p) ==
    \/ nl \in p.exact_matches
    \/ \E i \in 1..Len(p.prefixes) : StartsWith(nl, p.prefixes[i])
    \/ \E i \in 1..Len(p.suffixes) : EndsWith(nl, p.suffixes[i])

\* the if / elif / elif on name_lower: each branch appends the name
Qualifies(nl, p) ==
    IF nl \in p.exact_matches THEN TRUE
    ELSE IF \E i \in 1..Len(p.prefixes) : StartsWith(nl, p.prefixes[i]) THEN TRUE
    ELSE /\ \E i \in 1..Len(p.suffixes) : EndsWith(nl, p.suffixes[i])
         /\ ~ \E i \in 1..Len(p.suffix_exclusions) : Contains(nl, p.suffix_exclusions[i])

\* the body of "for item in path_obj.iterdir()" over items, in order
RECURSIVE ScanItems(_, _, _)
ScanItems(items, cand, sn) ==
    IF items = << >> THEN [candidates |-> cand, seen |-> sn]
    ELSE LET item == Head(items)
         IN IF item.kind = "dir" \/ item.name \in sn \/ item.name \in excluded
            THEN ScanItems(Tail(items), cand, sn)
            ELSE IF item.kind # "exec"
            THEN ScanItems(Tail(items), cand, sn)
            ELSE IF Qualifies(Lower(item.name), patterns)
            THEN ScanItems(Tail(items), Append(cand, item.name), sn \cup { item.name })
            ELSE ScanItems(Tail(items), cand, sn)

\* the loop over custom_tools
RECURSIVE AddCustom(_, _, _)
AddCustom(tools, cand, sn) ==
    IF tools = << >> THEN cand
    ELSE IF Head(tools) \notin excluded /\ Head(tools) \notin sn
    THEN AddCustom(Tail(tools), Append(cand, Head(tools)), sn \cup { Head(tools) })
    ELSE AddCustom(Tail(tools), cand, sn)

\* shutil.which(tool): an executable regular file of that name in a PATH directory
Which(tool) == \E e \in fs : e.name = tool /\ e.kind = "exec"

\* the candidates as they are, without the check against PATH
Unverified(cand) == cand

\* [tool for tool in candidates if shutil.which(tool)]
RECURSIVE Verified(_)
Verified(cand) ==
    IF cand = << >> THEN << >>
    ELSE IF Which(Head(cand)) THEN << Head(cand) >> \o Verified(Tail(cand))
    ELSE Verified(Tail(cand))

\* x put into the sorted list s, after the elements that are not greater
RECURSIVE Insert(_, _)
Insert(x, s) ==
    IF s = << >> THEN << x >>
    ELSE IF StrLess(x, Head(s)) THEN << x >> \o s
    ELSE << Head(s) >> \o Insert(x, Tail(s))

RECURSIVE InsertAll(_, _)
InsertAll(xs, s) == IF xs = << >> THEN s ELSE InsertAll(Tail(xs), Insert(Head(xs), s))

\* the list as it is
Unsorted(xs) == xs

\* sorted(available_tools)
Sorted(xs) == InsertAll(xs, << >>)

\* an error of one directory that ends the whole scan
ScanErrorAborts == "aborted"

\* except (PermissionError, OSError): continue -- the loop goes on
AfterScanError == "scan"

\* One iteration of "for path_dir in path_dirs". A directory without entries may
\* be missing (continue). iterdir() yields the entries in some order; a
\* PermissionError or OSError raised before the item number k + 1 is handled ends
\* the iteration there (except: continue), so that the first k items only are seen.
ScanDir ==
    /\ dpc = "scan"
    /\ di <= MaxDirs
    /\ LET E == { e \in fs : e.dir = di }
       IN \E order \in Orderings(E), k \in 0..Cardinality(E) :
            /\ LET r == ScanItems(SubSeq(order, 1, k), candidates, seen)
               IN /\ candidates' = r.candidates
                  /\ seen' = r.seen
            /\ failed' = IF k < Cardinality(E) THEN failed \cup { di } ELSE failed
            /\ dpc' = IF k < Cardinality(E) THEN AfterScanError ELSE dpc
    /\ di' = di + 1
    /\ UNCHANGED << fs, patterns, default_excluded, excluded_cli_tools, custom_tools,
                    available >>
    /\ UNCHANGED selVars

\* after the loop: custom_tools is read from the configuration, then the custom
\* tools are added, the candidates checked against PATH and the result sorted
Finish ==
    /\ dpc = "scan"
    /\ di > MaxDirs
    /\ custom_tools' \in CustomLists
    /\ LET all == AddCustom(custom_tools', candidates, seen)
       IN /\ candidates' = all
          /\ seen' = { all[i] : i \in 1..Len(all) }
          /\ available' = Sorted(Verified(all))
    /\ dpc' = "done"
    /\ UNCHANGED << fs, patterns, default_excluded, excluded_cli_tools, di, failed >>
    /\ UNCHANGED selVars

SelIdle ==
    /\ caller = "direct"
    /\ models = << >>
    /\ cli_tools = << >>
    /\ options = << >>
    /\ isatty = FALSE
    /\ pc = "idle"
    /\ current = 0
    /\ term = InitTerm
    /\ outcome = "none"
    /\ result = None
    /\ nReads = 0
    /\ lastByte = "none"
    /\ navs = << >>
    /\ notice = "none"
    /\ dispatched = NoDispatch
    /\ pending = "none"
    /\ ignored = 0
    /\ chat = NoChat
    /\ launched = NoTool

DiscInit ==
    /\ fs \in FileSystems
    /\ patterns \in [exact_matches : { { sClaude }, { sAndroidAi } },
                     prefixes : { << >>, << sMy >> },
                     suffixes : { << sDashAi >> },
                     suffix_exclusions : { << >>, << sAndroid >> }]
    /\ default_excluded \in { { }, { sHelperAi } }
    /\ excluded_cli_tools \in { { }, { sClaude } }
    /\ custom_tools = << >>
    /\ dpc = "scan"
    /\ di = 1
    /\ candidates = << >>
    /\ seen = { }
    /\ failed = { }
    /\ available = << >>
    /\ SelIdle

DiscNext == ScanDir \/ Finish

DiscSpec == DiscInit /\ [][DiscNext]_vars

(***************************************************************************)
(* Properties of the terminal selector.                                    *)
(***************************************************************************)
\* x occurs in the list s
InList(x, s) == \E i \in 1..Len(s) : s[i] = x

\* a read at position at returned a byte of set
ReadStep(at, set) == pc = at /\ nReads' = nReads + 1 /\ lastByte' \in set

UpStep == ReadStep("ch", { "k", "K" }) \/ ReadStep("next2", { "A" })

DownStep == ReadStep("ch", { "j", "J" }) \/ ReadStep("next2", { "B" })

EnterStep == ReadStep("ch", { "CR", "LF" })

QuitStep == ReadStep("ch", { "q", "Q" })

EscNotBracketStep == ReadStep("next1", Bytes \ { "[" })

EscBracketOtherStep == ReadStep("next2", Bytes \ { "A", "B" })

\* the cursor that the navigation keys ks give from cursor 0 among n options
RECURSIVE CursorAfter(_, _)
CursorAfter(ks, n) ==
    IF ks = << >> THEN 0
    ELSE LET c == CursorAfter(SubSeq(ks, 1, Len(ks) - 1), n)
         IN IF ks[Len(ks)] = "down"
            THEN (IF c = n - 1 THEN 0 ELSE c + 1)
            ELSE (IF c = 0 THEN n - 1 ELSE c - 1)

\* C1: every invocation of select_option that saved the terminal mode and entered
\* raw mode has restored the saved mode exactly once when it ends, on every exit
\* path, an exception raised while reading or rendering included.
C1_RestoredOnEveryExit ==
    (outcome # "none" /\ term.nSave = 1 /\ term.nSetraw = 1)
        => (term.nRestore = 1 /\ term.mode = "cooked")

\* C2 as stated: when the interrupt byte is read and the interrupt propagated, the
\* invocation has made exactly one mode-restore call and exactly one show-cursor call.
C2_InterruptOneShow ==
    outcome = "interrupted" => (term.nRestore = 1 /\ term.nShow = 1)

\* C2 as amended: when the interrupt byte is read and the interrupt propagated, the
\* invocation has made exactly one mode-restore call, which restored the saved
\* mode, and exactly two show-cursor calls (the Ctrl+C branch's and the finally
\* block's).
C2_InterruptOneRestoreTwoShows ==
    outcome = "interrupted"
        => (term.nRestore = 1 /\ term.nShow = 2 /\ term.mode = "cooked")

C2_Witness == outcome = "interrupted" /\ lastByte = "ETX" /\ term.nSetraw = 1

\* C3: on both fast paths of select_option (no option, or stdin not a terminal) the
\* result is Cancelled and the terminal is untouched: no mode save, no raw mode, no
\* restore, no hide-cursor, show-cursor or clear-screen call.
C3_FastPathTouchesNothing ==
    (pc \notin { "call", "exit1" } /\ (options = << >> \/ ~isatty))
        => (outcome = "cancelled" /\ result = None /\ term = InitTerm)

C3_Witness ==
    pc = "returned" /\ ~isatty /\ options # << >> /\ outcome = "cancelled"

\* C4: with N >= 1 options each Up/k/K key sets the cursor to (cursor - 1) mod N and
\* each Down/j/J key to (cursor + 1) mod N: Up at 0 gives N-1, Down at N-1 gives 0,
\* and 0 <= cursor < N after any sequence of keys.
C4_WrapAround ==
    /\ [](options # << >> => current \in 0..(Len(options) - 1))
    /\ [][ /\ UpStep =>
                current' = IF current = 0 THEN Len(options) - 1 ELSE current - 1
           /\ DownStep =>
                current' = IF current = Len(options) - 1 THEN 0 ELSE current + 1 ]_vars

C4_Witness ==
    Len(options) = MaxOpts /\ navs = << "up", "down" >> /\ current = 0 /\ pc = "ch"

\* C5: Enter at a key boundary ends select_option with Selected carrying the option
\* at the cursor, the cursor being 0 moved by all navigation keys processed so far
\* (unless a terminal write raises); no other option is returned.
C5_EnterSelectsCursor ==
    /\ [](outcome = "selected" =>
            result = options[CursorAfter(navs, Len(options)) + 1])
    /\ [][EnterStep => outcome' \in { "selected", "error" }]_vars

C5_Witness ==
    outcome = "selected" /\ Len(navs) >= 2 /\ current = 1 /\ result = options[2]

\* C6 as stated: the selector ends with Cancelled when it reads q or Q, or an ESC
\* that is not followed by '[' and then 'A' or 'B'.
C6_CancelOnAnyNonArrowEsc ==
    [][(QuitStep \/ EscNotBracketStep \/ EscBracketOtherStep)
           => outcome' \in { "cancelled", "error" }]_vars

\* C6 as amended: the selector ends with Cancelled (or with the exception of a
\* failed terminal write) when it reads q or Q at a key boundary or an ESC whose
\* next byte is not '[', and once in its loop in no other case; ESC '[' followed
\* by a byte other than 'A' and 'B' does not end it: the selector waits for the
\* next key.
C6_CancelOnQuitOrEscNotBracket ==
    [][ /\ (QuitStep \/ EscNotBracketStep) => outcome' \in { "cancelled", "error" }
        /\ EscBracketOtherStep => (outcome' = "none" /\ pc' = "ch")
        /\ (pc # "call" /\ outcome = "none" /\ outcome' = "cancelled")
               => (QuitStep \/ EscNotBracketStep) ]_vars

C6_Witness == outcome = "cancelled" /\ nReads = 2 /\ lastByte = "x"

\* the model or tool behind option number i (zero-based) of tools()
ResourceAt(i) ==
    IF i < Len(models)
    THEN [kind |-> "chat", name |-> models[i + 1]]
    ELSE [kind |-> "launch", name |-> cli_tools[i + 1 - Len(models)]]

\* the control flow is in, or has left, the branch of tools() for that kind
InBranch(kind) ==
    IF kind = "chat" THEN pc \in { "chat", "chat_done" }
    ELSE kind = "launch" /\ pc \in { "launch", "launch_done" }

\* C7 as stated: tools() dispatches Selected, prints a one-line notice for
\* Cancelled, and prints nothing for Interrupted.
C7_InterruptedIsQuiet ==
    /\ (caller = "tools" /\ outcome = "selected") => dispatched = ResourceAt(current)
    /\ (caller = "tools" /\ outcome = "cancelled") => notice = "Cancelled."
    /\ (caller = "tools" /\ outcome = "interrupted") => notice = "none"

\* C7 as amended: tools() dispatches Selected(payload) to the chat session or the
\* process launcher with no notice; for Cancelled and for Interrupted alike it
\* prints the one-line "Cancelled." notice and returns without dispatching.
C7_CancelledAndInterruptedNotice ==
    /\ (caller = "tools" /\ outcome = "selected")
           => (dispatched = ResourceAt(current) /\ notice = "none"
               /\ InBranch(dispatched.kind))
    /\ (caller = "tools" /\ outcome \in { "cancelled", "interrupted" })
           => (notice = "Cancelled." /\ dispatched = NoDispatch
               /\ pc = "tools_returned")

C7_Witness ==
    caller = "tools" /\ outcome = "interrupted" /\ notice = "Cancelled."

\* C13 as stated: in the chat loop an error surfaced by the chat collaborator for a
\* request ends the loop: after a failed request no further line is read and no
\* further request forwarded.
C13_FailedRequestEndsLoop ==
    (chat.errorTexts > 0 \/ chat.raised) => pc = "chat_done"

\* the request of this step came back as the text of a failure
ErrorTextStep == pc = "chat" /\ chat'.errorTexts = chat.errorTexts + 1

\* C13 as amended: an exception raised by the chat collaborator for a request is
\* caught, printed as an error and ends the loop: no further line is read and no
\* further request forwarded. A failure that the collaborator returns as text
\* (AIModelManager.chat catches the provider's exceptions and returns "Error
\* calling ...") is printed as the reply and the loop goes on with the next prompt.
C13_RaisedErrorEndsLoopTextDoesNot ==
    /\ [](chat.raised => (pc = "chat_done" /\ chat.printed = "error"))
    /\ [][chat.raised => chat' = chat]_vars
    /\ [][ErrorTextStep =>
            (pc' = "chat" /\ chat'.printed = "reply" /\ ~chat'.raised
             /\ chat'.requests = chat.requests + 1)]_vars

C13_Witness ==
    /\ pc = "chat_done"
    /\ chat.raised
    /\ chat.errorTexts = 1
    /\ chat.requests = 2
    /\ chat.prompts = 2

\* C14 as stated: each outcome of the launch has its own handling and the session
\* ends: "not found" prints guidance to add the tool, a non-zero exit prints the
\* failure, an interrupt during the process prints no error message.
C14_NonZeroExitPrinted ==
    pc = "launch_done" =>
        /\ launched.outcome = "not_found" => launched.printed = "not_found_guidance"
        /\ launched.outcome = "nonzero" => launched.printed = "error"
        /\ launched.outcome = "interrupt" => launched.printed \in { "none", "newline" }

\* C14 as amended: "not found" prints guidance to add the tool, an interrupt during
\* the process prints an empty line and no error message, another exception of
\* the launch prints the failure, and an exit of the process prints nothing
\* whether its status is zero or not; in every case the session then ends.
C14_NonZeroExitSilent ==
    /\ pc = "launch" => launched = NoTool
    /\ pc = "launch_done" =>
        /\ launched.outcome \in LaunchOutcomes
        /\ launched.outcome = "not_found" => launched.printed = "not_found_guidance"
        /\ launched.outcome = "interrupt" => launched.printed = "newline"
        /\ launched.outcome = "os_error" => launched.printed = "error"
        /\ launched.outcome \in { "exit0", "nonzero" } => launched.printed = "none"

C14_Witness ==
    /\ pc = "launch_done"
    /\ dispatched = [kind |-> "launch", name |-> sAider]
    /\ launched.outcome = "nonzero"
    /\ launched.printed = "none"

\* C16 as stated: an ESC whose continuation is not '[' followed by 'A' or 'B' is
\* ignored: the cursor is unchanged, the menu is rendered again, the selector
\* stays in its loop and no error is raised.
C16_UnrecognizedRerenders ==
    [][(EscNotBracketStep \/ EscBracketOtherStep) =>
           /\ current' = current
           /\ outcome' = "none"
           /\ pc' = "ch"
           /\ term'.nClear = term.nClear + 1]_vars

\* C16 as amended: ESC '[' followed by a byte other than 'A' and 'B' is ignored:
\* the cursor is unchanged, nothing is written to the terminal (no re-render), the
\* selector stays in its loop and no error is raised. An ESC followed by a byte
\* other than '[' is not ignored: it ends the selector with Cancelled (or with
\* the exception of a failed terminal write).
C16_UnknownCsiIgnoredSilently ==
    [][ /\ EscBracketOtherStep =>
            /\ current' = current
            /\ navs' = navs
            /\ term' = term
            /\ outcome' = "none"
            /\ pc' = "ch"
        /\ EscNotBracketStep =>
            /\ current' = current
            /\ outcome' \in { "cancelled", "error" } ]_vars

C16_Witness ==
    /\ ignored = 1
    /\ lastByte = "x"
    /\ nReads = 3
    /\ pc = "ch"
    /\ outcome = "none"
    /\ term.nClear = 1

\* C17: after a bare ESC, with no further byte arriving, the selector ends with
\* Cancelled: from the ESC on, it cancels (or a read raises) unless a further
\* byte arrives.
C17_BareEscCancels ==
    (pc = "next1" /\ pending = "none")
        ~> (outcome \in { "cancelled", "error" } \/ pending # "none")

\* the bytes that end the selector at a key boundary
EndKeys == { "CR", "LF", "q", "Q", "ETX" }

\* C18: once Enter, q, Q or the interrupt byte waits at a key boundary of the
\* loop, the selector eventually ends with raw mode released.
C18_EndKeyReleasesRawMode ==
    (pc = "ch" /\ pending \in EndKeys) ~> (outcome # "none" /\ term.mode = "cooked")

\* C19: every payload tools() builds decodes into the kind and the full name of the
\* model or tool it was built for, a name that holds the separator included, and
\* that is what a selection hands to the chat session or the launcher.
C19_PayloadRoundTrip ==
    (caller = "tools" /\ pc \notin { "call", "exit1" }) =>
        /\ \A i \in 1..Len(options) : Dispatch(options[i]) = ResourceAt(i - 1)
        /\ outcome = "selected" =>
               /\ dispatched = Dispatch(result)
               /\ \/ dispatched.kind = "chat" /\ InList(dispatched.name, models)
                  \/ dispatched.kind = "launch" /\ InList(dispatched.name, cli_tools)

C19_Witness ==
    /\ caller = "tools"
    /\ outcome = "selected"
    /\ pc = "chat"
    /\ result[2] = sModel \o sColon \o sOllamaTagged
    /\ dispatched = [kind |-> "chat", name |-> sOllamaTagged]

(***************************************************************************)
(* Properties of discovery.                                                *)
(***************************************************************************)
\* a is before b in lexicographic order: at the first position where they differ a
\* has ended or holds the character of the smaller code point
LexBefore(a, b) ==
    \E k \in 1..Len(b) :
        /\ \A m \in 1..(k - 1) : m <= Len(a) /\ a[m] = b[m]
        /\ \/ k = Len(a) + 1
           \/ k <= Len(a) /\ Ord(a[k]) < Ord(b[k])

\* the loop over PATH is over and no directory raised
ScanComplete == dpc = "scan" /\ di > MaxDirs /\ failed = { }

\* C8: the list returned by discovery is sorted lexicographically and holds each
\* name at most once, whatever the PATH directories and the custom tools hold.
C8_SortedNoDuplicates ==
    dpc = "done" =>
        /\ \A i, j \in 1..Len(available) :
               i < j => (available[i] = available[j] \/ LexBefore(available[i], available[j]))
        /\ \A i, j \in 1..Len(available) : available[i] = available[j] => i = j

C8_Witness ==
    /\ dpc = "done"
    /\ available = << sClaudeCap, sClaude >>
    /\ InList(sClaude, custom_tools)
    /\ \E e \in fs : e.dir = 1 /\ e.name = sClaude

\* the rule of C9 on a lower-case name
ClaimQualifies(nl) ==
    \/ nl \in patterns.exact_matches
    \/ \E i \in 1..Len(patterns.prefixes) : StartsWith(nl, patterns.prefixes[i])
    \/ /\ \E i \in 1..Len(patterns.suffixes) : EndsWith(nl, patterns.suffixes[i])
       /\ \A i \in 1..Len(patterns.suffix_exclusions) :
              ~Contains(nl, patterns.suffix_exclusions[i])

\* C9: an executable regular file on PATH that is not excluded becomes a candidate
\* exactly when its lower-case name is in exact_matches, or starts with a prefix,
\* or ends with a suffix and contains no suffix exclusion.
C9_Classification ==
    ScanComplete =>
        \A e \in fs :
            (e.kind = "exec" /\ e.name \notin default_excluded \cup excluded_cli_tools)
                => (InList(e.name, candidates) <=> ClaimQualifies(Lower(e.name)))

C9_Witness ==
    /\ ScanComplete
    /\ patterns.prefixes = << >>
    /\ patterns.suffixes = << sDashAi >>
    /\ patterns.suffix_exclusions = << sAndroid >>
    /\ \E e \in fs : e.name = sAndroidAi /\ e.kind = "exec"
    /\ \E e \in fs : e.name = sHelperAi /\ e.kind = "exec"
    /\ InList(sHelperAi, candidates)
    /\ ~InList(sAndroidAi, candidates)

\* C10: no excluded name is in the list discovery returns, whether the name matches
\* the exact, prefix or suffix rule on PATH or is a custom tool.
C10_ExcludedNeverReturned ==
    dpc = "done" =>
        \A i \in 1..Len(available) :
            available[i] \notin default_excluded \cup excluded_cli_tools

C10_Witness ==
    /\ dpc = "done"
    /\ sClaude \in excluded_cli_tools
    /\ sClaude \in patterns.exact_matches
    /\ \E e \in fs : e.name = sClaude /\ e.kind = "exec"
    /\ InList(sClaude, custom_tools)
    /\ ~InList(sClaude, available)

\* a PATH directory holds an executable regular file of that name
OnLivePath(n) == \E e \in fs : e.name = n /\ e.kind = "exec"

\* C11: every name in the list discovery returns is resolvable on PATH; a custom
\* tool of the configuration that no PATH directory holds is not in the list.
C11_ResultResolvable ==
    dpc = "done" =>
        /\ \A i \in 1..Len(available) : OnLivePath(available[i])
        /\ \A i \in 1..Len(custom_tools) :
               ~OnLivePath(custom_tools[i]) => ~InList(custom_tools[i], available)

C11_Witness ==
    /\ dpc = "done"
    /\ InList(sAndroidAi, custom_tools)
    /\ InList(sAndroidAi, candidates)
    /\ ~OnLivePath(sAndroidAi)
    /\ ~InList(sAndroidAi, available)
    /\ available # << >>

\* the scan of the directory di raises in this step
ScanRaisesStep == dpc = "scan" /\ di <= MaxDirs /\ di \in failed' /\ di \notin failed

\* a is an initial segment of b
IsPrefix(a, b) == Len(a) <= Len(b) /\ SubSeq(b, 1, Len(a)) = a

\* C12 as stated: an error raised while a PATH directory is scanned does not end
\* discovery, that directory contributes no candidate, and every other directory
\* and the custom tools are still processed, wherever the failing directory is.
C12_FailedDirContributesNothing ==
    [][ScanRaisesStep => (dpc' = "scan" /\ di' = di + 1 /\ candidates' = candidates)]_vars

\* C12 as amended: an error raised while a PATH directory is scanned does not end
\* discovery: the loop goes on with the next directory; the failing directory
\* contributes the candidates found among its entries before the error and none
\* after it; every directory that did not fail and the custom tools are processed
\* in full, wherever the failing directory is.
C12_FailedDirKeepsEarlierCandidates ==
    /\ [](dpc \in { "scan", "done" })
    /\ [][ScanRaisesStep =>
            /\ dpc' = "scan" /\ di' = di + 1
            /\ IsPrefix(candidates, candidates')
            /\ Len(candidates') - Len(candidates) < Cardinality({ e \in fs : e.dir = di })
            /\ \A i \in (Len(candidates) + 1)..Len(candidates') :
                   \E e \in fs : e.dir = di /\ e.name = candidates'[i] /\ e.kind = "exec"
        ]_vars
    /\ [](dpc = "done" =>
            /\ \A e \in fs :
                   (/\ e.dir \notin failed /\ e.kind = "exec"
                    /\ e.name \notin default_excluded \cup excluded_cli_tools
                    /\ ClaimQualifies(Lower(e.name)))
                       => InList(e.name, candidates)
            /\ \A i \in 1..Len(custom_tools) :
                   custom_tools[i] \notin default_excluded \cup excluded_cli_tools
                       => InList(custom_tools[i], candidates))

C12_Witness ==
    /\ dpc = "done"
    /\ failed = { 1 }
    /\ \E e \in fs : e.dir = 1 /\ e.name = sHelperAi /\ e.kind = "exec"
    /\ \E e \in fs : e.dir = 2 /\ e.name = sClaude /\ e.kind = "exec"
    /\ candidates = << sClaude, sAndroidAi >>
    /\ custom_tools = << sAndroidAi >>

\* C15: matching is case-insensitive for every rule, the excluded set included: two
\* executable files on PATH whose names differ only in letter case are both
\* candidates or both not.
C15_CaseInsensitiveDecision ==
    ScanComplete =>
        \A a \in fs, b \in fs :
            (a.kind = "exec" /\ b.kind = "exec" /\ Lower(a.name) = Lower(b.name))
                => (InList(a.name, candidates) <=> InList(b.name, candidates))

====
